---- MODULE Spec2Model ----
(***************************************************************************)
(* Model of the KRX market heatmap's sector-classification pipeline:       *)
(*   module_1_enrich.py  load_data, scrape_wics_sector, update_master_book,*)
(*                       add_wics_info                                     *)
(*   module_2.py         enrich_data (consolidate_column, format_label)    *)
(*   app.py              the refresh handler that chains the two           *)
(*                                                                         *)
(* Cells of a table are tagged tuples, so that values of different Python  *)
(* types stay comparable:                                                  *)
(*   <<"NaN">>      a missing value (None / NaN)                           *)
(*   <<"s", t>>     a str; t is its text as a sequence of tokens           *)
(*   <<"n", k>>     a number                                               *)
(* Ticker codes are the integers 1..NumTickers; each stands for one code   *)
(* string (read back with dtype str, module_1_enrich.py:17).               *)
(* The Korean column names of module_2.py are written romanised, TLA+      *)
(* strings being ASCII: sigachongaek, jongga, deungnaklyul, georaeryang,   *)
(* georaedaegeum.                                                          *)
(***************************************************************************)
EXTENDS Integers, Sequences, FiniteSets, TLC

\* ------------------------------------------------------------------ bounds
NumTickers == 2
MaxRows == 2
MaxList == 2
MaxTextLen == 2
MaxFmtRows == 1
MaxPairs == 3

Tickers == 1..NumTickers

\* ------------------------------------------------------------------ values
NaN == <<"NaN">>
S(t) == <<"s", t>>
N(k) == <<"n", k>>
None == <<"None">>

IsNaN(v) == v = NaN
IsStr(v) == v[1] = "s"
IsNum(v) == v[1] = "n"

Unclassified == S(<<"Unclassified">>)

\* Python's str.isspace() is true of ' ' and of '\xa0'.
SP == " "
NBSP == "nbsp"
IsSpace(c) == c \in {SP, NBSP}

RECURSIVE LStrip(_)
LStrip(t) ==
    IF t # <<>> /\ IsSpace(Head(t)) THEN LStrip(Tail(t)) ELSE t

RECURSIVE RStrip(_)
RStrip(t) ==
    IF t # <<>> /\ IsSpace(t[Len(t)]) THEN RStrip(SubSeq(t, 1, Len(t) - 1)) ELSE t

\* str.strip()
Strip(t) == RStrip(LStrip(t))

\* str.replace(c, '')
Remove(t, c) == SelectSeq(t, LAMBDA x : x # c)

\* ------------------------------------------------- the reference dictionary
\* wics_dictionary.csv as pd.read_csv returns it (an empty field reads as NaN).
DictRows ==
    << [WICS_Code |-> S(<<"10">>), Large_Name |-> S(<<"Energy">>),
        Medium_Name |-> NaN, Small_Name |-> NaN],
       [WICS_Code |-> S(<<"101010">>), Large_Name |-> S(<<"Energy">>),
        Medium_Name |-> S(<<"Energy">>), Small_Name |-> S(<<"Oil", SP, "Gas">>)],
       [WICS_Code |-> S(<<"10101010">>), Large_Name |-> S(<<"Energy">>),
        Medium_Name |-> S(<<"Energy">>), Small_Name |-> S(<<"Oil", SP, "Gas">>)],
       [WICS_Code |-> S(<<"451010">>), Large_Name |-> NaN,
        Medium_Name |-> NaN, Small_Name |-> S(<<"Semis">>)] >>

\* for _, row in df_dict.dropna(subset=['Small_Name']).iterrows():
\*     wics_map[row['Small_Name'].replace(" ", "")] = {...}     (a later row wins)
RECURSIVE BuildWicsMap(_, _)
BuildWicsMap(rows, acc) ==
    IF rows = <<>> THEN acc
    ELSE LET row == Head(rows)
             key == Remove(row.Small_Name[2], SP)
             val == [WICS_Code |-> row.WICS_Code, Large |-> row.Large_Name,
                     Medium |-> row.Medium_Name, Small |-> row.Small_Name]
         IN  IF IsNaN(row.Small_Name) THEN BuildWicsMap(Tail(rows), acc)
             ELSE BuildWicsMap(Tail(rows),
                     [k \in (DOMAIN acc) \cup {key} |-> IF k = key THEN val ELSE acc[k]])

EmptyMap == [k \in {} |-> NaN]

\* ------------------------------------------------------ the master book file
MasterCols == {"Code", "WICS_Code", "Large", "Medium", "Small"}

AbsentFile == [state |-> "absent", rows |-> <<>>]

\* DataFrame.to_csv: a missing value is written as an empty field, a number as
\* its digits (the only numbers of the master book are WICS codes that
\* read_csv inferred, whose payload is their digit text).
CellToCsv(v) == IF IsNaN(v) THEN S(<<>>) ELSE S(v[2])

RowToCsv(r) ==
    [c \in DOMAIN r |-> IF c = "Code" THEN r[c] ELSE CellToCsv(r[c])]

\* df.to_csv(MASTER_FILE, index=False). A frame without columns writes a file
\* that holds no header.
to_csv(df) ==
    IF df.cols = {} THEN [state |-> "noheader", rows |-> <<>>]
    ELSE [state |-> "ok", rows |-> [i \in 1..Len(df.rows) |-> RowToCsv(df.rows[i])]]

DigitTexts == {DictRows[i].WICS_Code[2] : i \in 1..Len(DictRows)}

\* pd.read_csv(MASTER_FILE, dtype={'Code': str}): an empty field reads as NaN;
\* a column other than Code whose fields are all digits reads as numbers.
CellFromCsv(v, numeric) ==
    IF v[2] = <<>> THEN NaN ELSE IF numeric THEN N(v[2]) ELSE v

read_csv(file) ==
    LET numeric == {c \in MasterCols \ {"Code"} :
                       /\ file.rows # <<>>
                       /\ \A i \in 1..Len(file.rows) : file.rows[i][c][2] \in DigitTexts}
    IN  [cols |-> MasterCols,
         rows |-> [i \in 1..Len(file.rows) |->
                     [c \in MasterCols |->
                         IF c = "Code" THEN file.rows[i][c]
                         ELSE CellFromCsv(file.rows[i][c], c \in numeric)]]]

\* load_data raises (pandas.errors.EmptyDataError) on a file without a header.
LoadRaises(file) == file.state = "noheader"

\* load_data()[0] reading every master book as if it held no record.
load_master_empty(file) == [cols |-> MasterCols, rows |-> <<>>]

\* load_data()[0]
load_master(file) ==
    IF file.state = "absent" THEN [cols |-> MasterCols, rows |-> <<>>]
    ELSE read_csv(file)

\* load_data()[1]
load_wics_map(dictExists) ==
    IF dictExists THEN BuildWicsMap(DictRows, EmptyMap) ELSE EmptyMap

Codes(rows) == {rows[i].Code : i \in 1..Len(rows)}

\* ------------------------------------------------------- the external lookup
MARKER == "WICS :"
MARKER_NOSPACE == "WICS:"
\* re.compile(r"WICS\s*:").search(text)
MatchesRegex(text) == \E i \in 1..Len(text) : text[i] \in {MARKER, MARKER_NOSPACE}

\* text.split('WICS :')
RECURSIVE Split(_)
Split(text) ==
    IF \E i \in 1..Len(text) : text[i] = MARKER
    THEN LET i == CHOOSE i \in 1..Len(text) :
                     /\ text[i] = MARKER
                     /\ \A j \in 1..(i - 1) : text[j] # MARKER
         IN  <<SubSeq(text, 1, i - 1)>> \o Split(SubSeq(text, i + 1, Len(text)))
    ELSE <<text>>

\* soup.find(string=re.compile(r"WICS\s*:")): the first text node that matches.
FindNode(nodes) ==
    IF \E i \in 1..Len(nodes) : MatchesRegex(nodes[i])
    THEN LET i == CHOOSE i \in 1..Len(nodes) :
                     /\ MatchesRegex(nodes[i])
                     /\ \A j \in 1..(i - 1) : ~MatchesRegex(nodes[j])
         IN  S(nodes[i])
    ELSE None

ExcResponse == [kind |-> "exception", status |-> 0, nodes |-> <<>>]
HttpResponse(status, nodes) == [kind |-> "http", status |-> status, nodes |-> nodes]

\* scrape_wics_sector(code): requests.get raises on a timeout or a network
\* error and returns the response of any status otherwise.
scrape_wics_sector(resp) ==
    IF resp.kind = "exception" THEN None
    ELSE LET wics_element == FindNode(resp.nodes)
         IN  IF wics_element = None THEN None
             ELSE LET parts == Split(Strip(wics_element[2]))
                  IN  IF Len(parts) > 1
                      THEN S(Remove(Remove(Strip(parts[2]), NBSP), SP))
                      ELSE None

\* ------------------------------------------------------- update_master_book
\* NewRow with the miss branch writing "Unclassified" into Small as well.
NewRow_SmallUnclassified(ticker, sector_name, wics_map) ==
    IF sector_name # None /\ sector_name[2] # <<>> /\ sector_name[2] \in DOMAIN wics_map
    THEN LET mapping == wics_map[sector_name[2]]
         IN  [Code |-> ticker, WICS_Code |-> mapping.WICS_Code, Large |-> mapping.Large,
              Medium |-> mapping.Medium, Small |-> mapping.Small]
    ELSE [Code |-> ticker, WICS_Code |-> Unclassified, Large |-> Unclassified,
          Medium |-> Unclassified, Small |-> Unclassified]

\* NewRow with the miss branch dropping the raw label.
NewRow_NoRawLabel(ticker, sector_name, wics_map) ==
    IF sector_name # None /\ sector_name[2] # <<>> /\ sector_name[2] \in DOMAIN wics_map
    THEN LET mapping == wics_map[sector_name[2]]
         IN  [Code |-> ticker, WICS_Code |-> mapping.WICS_Code, Large |-> mapping.Large,
              Medium |-> mapping.Medium, Small |-> mapping.Small]
    ELSE [Code |-> ticker, WICS_Code |-> Unclassified, Large |-> Unclassified,
          Medium |-> Unclassified, Small |-> S(<<"Error">>)]

\* if sector_name and sector_name in wics_map: ... else: ...
NewRow(ticker, sector_name, wics_map) ==
    IF sector_name # None /\ sector_name[2] # <<>> /\ sector_name[2] \in DOMAIN wics_map
    THEN LET mapping == wics_map[sector_name[2]]
         IN  [Code |-> ticker, WICS_Code |-> mapping.WICS_Code, Large |-> mapping.Large,
              Medium |-> mapping.Medium, Small |-> mapping.Small]
    ELSE [Code |-> ticker, WICS_Code |-> Unclassified, Large |-> Unclassified,
          Medium |-> Unclassified,
          Small |-> IF sector_name # None /\ sector_name[2] # <<>>
                    THEN S(<<"Unmapped: ">> \o sector_name[2])
                    ELSE S(<<"Error">>)]

\* pd.DataFrame(new_rows): a frame built from an empty list has no columns.
DataFrame(rows) ==
    [cols |-> IF rows = <<>> THEN {} ELSE MasterCols, rows |-> rows]

\* df.empty
Empty(df) == df.rows = <<>> \/ df.cols = {}

\* df.drop_duplicates(subset=['Code'], keep='last')
drop_duplicates_last(rows) ==
    LET keep(i) == \A j \in (i + 1)..Len(rows) : rows[j].Code # rows[i].Code
        RECURSIVE Sel(_)
        Sel(i) == IF i > Len(rows) THEN <<>>
                  ELSE (IF keep(i) THEN <<rows[i]>> ELSE <<>>) \o Sel(i + 1)
    IN  Sel(1)

\* Combine without the concatenation: the new rows replace the master book.
Combine_NewOnly(df_old, df_new) == df_new

\* if not df_old.empty: concat, drop_duplicates(keep='last') else: df_new
Combine(df_old, df_new) ==
    IF ~Empty(df_old)
    THEN [cols |-> df_old.cols \cup df_new.cols,
          rows |-> drop_duplicates_last(df_old.rows \o df_new.rows)]
    ELSE df_new

\* The rows update_master_book builds: one per entry of missing_tickers,
\* resp[i] being what the network answers to the i-th lookup.
NewRows(missing_tickers, resp, wics_map) ==
    [i \in 1..Len(missing_tickers) |->
        NewRow(missing_tickers[i], scrape_wics_sector(resp[i]), wics_map)]

\* update_master_book(missing_tickers, wics_map): the frame it saves and returns,
\* given the master file it finds when it reloads.
update_master_book(missing_tickers, resp, wics_map, file) ==
    Combine(load_master(file), DataFrame(NewRows(missing_tickers, resp, wics_map)))

\* ------------------------------------------------------------ add_wics_info
\* known_tickers left empty whatever the master book holds.
known_tickers_none(df_master) == {}

\* known_tickers = set(df_master['Code']) if not df_master.empty else set()
known_tickers(df_master) ==
    IF ~Empty(df_master) THEN Codes(df_master.rows) ELSE {}

\* snapshot_tickers - known_tickers
missing_set(df_snapshot, df_master) ==
    Codes(df_snapshot.rows) \ known_tickers(df_master)

\* list(a set): every order is possible.
Lists(set) ==
    {l \in [1..Cardinality(set) -> set] : \A i, j \in DOMAIN l : i # j => l[i] # l[j]}

\* The merge with how='right': the right rows in order, each once per matching
\* left row, or once with missing values.
merge_right(left, right) ==
    LET added == right.cols \ {"Code"}
        kept == left.cols \ {"Code"}
        matches(r) == SelectSeq(left.rows, LAMBDA l : l.Code = r.Code)
        RECURSIVE Go(_)
        Go(i) ==
            IF i > Len(right.rows) THEN <<>>
            ELSE LET r == right.rows[i]
                     m == matches(r)
                 IN  (IF m = <<>> THEN <<r @@ [c \in kept |-> NaN]>>
                      ELSE [k \in 1..Len(m) |-> m[k] @@ [c \in added |-> r[c]]]) \o Go(i + 1)
    IN  [cols |-> left.cols \cup added, rows |-> Go(1)]

\* pd.merge(df_snapshot, df_master, on='Code', how='left'): the left rows in
\* order, each once per matching right row, or once with missing values.
merge_left(left, right) ==
    LET added == right.cols \ {"Code"}
        matches(l) == SelectSeq(right.rows, LAMBDA r : r.Code = l.Code)
        joined(l, r) == l @@ [c \in added |-> r[c]]
        unmatched(l) == l @@ [c \in added |-> NaN]
        RECURSIVE Go(_)
        Go(i) ==
            IF i > Len(left.rows) THEN <<>>
            ELSE LET l == left.rows[i]
                     m == matches(l)
                 IN  (IF m = <<>> THEN <<unmatched(l)>>
                      ELSE [k \in 1..Len(m) |-> joined(l, m[k])]) \o Go(i + 1)
    IN  [cols |-> left.cols \cup added, rows |-> Go(1)]

\* df.fillna(value): every missing cell of every column (a ticker code is never
\* missing).
fillna(df, value) ==
    [cols |-> df.cols,
     rows |-> [i \in 1..Len(df.rows) |->
                 [c \in DOMAIN df.rows[i] |->
                     IF c # "Code" /\ IsNaN(df.rows[i][c]) THEN value ELSE df.rows[i][c]]]]

\* The table add_wics_info returns, df_master being the loaded master book or,
\* when tickers were missing, what update_master_book returned.
join_and_fill(df_snapshot, df_master) ==
    fillna(merge_left(df_snapshot, df_master), Unclassified)

\* ---------------------------------------------------------------- enrich_data
\* What float(x) and pd.to_numeric accept among the texts of the model.
ParseTable == ("45" :> 45) @@ ("-52" :> (0 - 52)) @@ ("7" :> 7)
IsNumericText(t) == Len(t) = 1 /\ t[1] \in DOMAIN ParseTable

\* The first entry of candidates that is a column (0 when there is none).
FirstPresent(cols, candidates) ==
    IF \E i \in 1..Len(candidates) : candidates[i] \in cols
    THEN CHOOSE i \in 1..Len(candidates) :
            /\ candidates[i] \in cols
            /\ \A j \in 1..(i - 1) : candidates[j] \notin cols
    ELSE 0

\* consolidate_column without the early return on an existing target column.
consolidate_column_first(row, cols, target, candidates) ==
    LET i == FirstPresent(cols, candidates)
    IN  IF i # 0 THEN row[candidates[i]] ELSE N(0)

\* consolidate_column(df, target, candidates), as the value df[target] has in
\* one row afterwards; cols are the columns of df before the call.
consolidate_column(row, cols, target, candidates) ==
    IF target \in cols THEN row[target]
    ELSE LET i == FirstPresent(cols, candidates)
         IN  IF i # 0 THEN row[candidates[i]] ELSE N(0)

CanonicalFields == {"Marcap", "Close", "ChagesRatio", "Volume", "Amount"}

Candidates ==
    [Marcap |-> <<"sigachongaek", "sigachongaek_x", "sigachongaek_y", "Marcap">>,
     Close |-> <<"jongga", "jongga_x", "jongga_y", "Close">>,
     ChagesRatio |-> <<"deungnaklyul", "deungnaklyul_x", "Change", "ChagesRatio">>,
     Volume |-> <<"georaeryang", "georaeryang_x", "georaeryang_y", "Volume">>,
     Amount |-> <<"georaedaegeum", "georaedaegeum_x", "georaedaegeum_y", "Amount">>]

\* 3. Apply Consolidation: the five calls, each field's candidates being columns
\* no other call writes.
Consolidated(row, cols, target) ==
    consolidate_column(row, cols, target, Candidates[target])

\* 4. Fill Missing Sector Info: df[col].fillna("Unclassified"), or the constant
\* column when df has no such column.
fill_sector(row, cols, col) ==
    IF col \in cols
    THEN (IF IsNaN(row[col]) THEN Unclassified ELSE row[col])
    ELSE Unclassified

SectorCols == {"Large", "Medium", "Small"}

\* str(x), the text of a cell (a ticker code is its own text)
Str(v, col) ==
    IF col = "Code" THEN <<ToString(v)>>
    ELSE IF IsNaN(v) THEN <<"nan">>
    ELSE IF IsNum(v) THEN <<ToString(v[2])>>
    ELSE v[2]

\* float(x) of a cell: a number, "nan" for a missing value, or "raises"
Float(v) ==
    IF IsNaN(v) THEN "nan"
    ELSE IF IsNum(v) THEN "ok"
    ELSE IF IsNumericText(v[2]) THEN "ok" ELSE "raises"

FloatValue(v) == IF IsNum(v) THEN v[2] ELSE ParseTable[v[2][1]]

\* f"{change_val:+.2f}%"
SignedPercent(k) ==
    <<IF k >= 0 THEN "+" ELSE "-", ToString(IF k >= 0 THEN k ELSE 0 - k), ".00", "%">>

\* format_label(row): name and change are row.get('Name', row.get('Code',
\* 'Unknown')) and row.get('ChagesRatio', 0.0) of the row after steps 3 and 4.
format_label(row, cols, change) ==
    LET name == IF "Name" \in cols THEN Str(row["Name"], "Name")
                ELSE IF "Code" \in cols THEN Str(row["Code"], "Code")
                ELSE <<"Unknown">>
    IN  IF Float(change) = "raises" THEN S(name)
        ELSE IF Float(change) = "nan" THEN S(name \o <<"\n", "+", "nan", "%">>)
        ELSE S(name \o <<"\n">> \o SignedPercent(FloatValue(change)))

\* pd.to_numeric(column, errors='coerce').fillna(0)
to_numeric_fill0(v) ==
    IF IsNaN(v) THEN N(0)
    ELSE IF IsNum(v) THEN v
    ELSE IF IsNumericText(v[2]) THEN N(ParseTable[v[2][1]]) ELSE N(0)

ClipLow == -30
ClipHigh == 30
\* Series.clip with the upper bound alone.
clip_upper_only(v) == IF v[2] > ClipHigh THEN N(ClipHigh) ELSE v

\* Series.clip(-30, 30)
clip(v) ==
    IF v[2] < ClipLow THEN N(ClipLow) ELSE IF v[2] > ClipHigh THEN N(ClipHigh) ELSE v

MarcapUnit == 100000000
\* f"{x / 100_000_000:,.0f}": round to the nearest integer, a tie to the even one
RoundedUnits(x) ==
    LET q == x \div MarcapUnit
        r == x % MarcapUnit
    IN  IF 2 * r > MarcapUnit \/ (2 * r = MarcapUnit /\ q % 2 = 1) THEN q + 1 ELSE q

marcap_disp(v) == S(<<ToString(RoundedUnits(v[2])), " eok">>)

desired_cols ==
    {"Code", "Name", "Market", "Close", "ChagesRatio", "Volume", "Amount", "Marcap",
     "Large", "Medium", "Small", "Label", "Color_Value", "Marcap_Disp", "Snapshot_Date"}

\* The columns steps 3 to 7 write, all of them in desired_cols.
WrittenCols ==
    CanonicalFields \cup SectorCols \cup {"Label", "Color_Value", "Marcap_Disp"}

\* The columns of desired_cols that reach the result only when df_enhanced has them.
KeptCols == desired_cols \ WrittenCols

\* One row of enrich_data's result: steps 3 to 7, then the selection of step 8
\* (existing_cols = the written columns and the kept columns df_enhanced has).
enrich_row(row, cols) ==
    LET change == Consolidated(row, cols, "ChagesRatio")
        ChagesRatio == to_numeric_fill0(change)
        Marcap == to_numeric_fill0(Consolidated(row, cols, "Marcap"))
    IN  [Marcap |-> Marcap,
         Close |-> Consolidated(row, cols, "Close"),
         ChagesRatio |-> ChagesRatio,
         Volume |-> Consolidated(row, cols, "Volume"),
         Amount |-> Consolidated(row, cols, "Amount"),
         Large |-> fill_sector(row, cols, "Large"),
         Medium |-> fill_sector(row, cols, "Medium"),
         Small |-> fill_sector(row, cols, "Small"),
         Label |-> format_label(row, cols, change),
         Color_Value |-> clip(ChagesRatio),
         Marcap_Disp |-> marcap_disp(Marcap)]
        @@ [c \in cols \cap KeptCols |-> row[c]]

\* enrich_data(df_snapshot, df_enhanced): df_snapshot is not read.
enrich_data(df_enhanced) ==
    [cols |-> WrittenCols \cup (df_enhanced.cols \cap KeptCols),
     rows |-> [i \in 1..Len(df_enhanced.rows) |->
                 enrich_row(df_enhanced.rows[i], df_enhanced.cols)]]

\* ------------------------------------------------- generate_wics_dictionary
\* A WICS code is the sequence of its digits; a match is [code, name], name
\* being m.group(2).
\* code_to_name with a later name replacing the one registered.
register_last(code_to_name, m) ==
    IF Len(m.code) % 2 = 0
    THEN [c \in DOMAIN code_to_name \cup {m.code} |->
             IF c = m.code THEN Strip(Strip(m.name)) ELSE code_to_name[c]]
    ELSE code_to_name

\* if len(code) % 2 == 0: if code not in code_to_name:
\*     code_to_name[code] = raw_name.strip(), raw_name being m.group(2).strip()
register(code_to_name, m) ==
    IF Len(m.code) % 2 = 0 /\ m.code \notin DOMAIN code_to_name
    THEN [c \in DOMAIN code_to_name \cup {m.code} |->
             IF c = m.code THEN Strip(Strip(m.name)) ELSE code_to_name[c]]
    ELSE code_to_name

\* code_to_name after the loop over the matches
RECURSIVE code_to_name(_)
code_to_name(matches) ==
    IF matches = <<>> THEN EmptyMap
    ELSE register(code_to_name(SubSeq(matches, 1, Len(matches) - 1)),
                  matches[Len(matches)])

\* a < b for two str of digits
RECURSIVE StrLess(_, _)
StrLess(a, b) ==
    IF a = <<>> THEN b # <<>>
    ELSE IF b = <<>> THEN FALSE
    ELSE IF a[1] # b[1] THEN a[1] < b[1]
    ELSE StrLess(Tail(a), Tail(b))

\* sorted(code_to_name.keys())
RECURSIVE sorted(_)
sorted(keys) ==
    IF keys = {} THEN <<>>
    ELSE LET least == CHOOSE k \in keys : \A other \in keys \ {k} : StrLess(k, other)
         IN  <<least>> \o sorted(keys \ {least})

\* code_to_name.get(code[:n], None) if len(code) >= n else None
level_name(map, code, n) ==
    IF Len(code) >= n /\ SubSeq(code, 1, n) \in DOMAIN map
    THEN S(map[SubSeq(code, 1, n)])
    ELSE None

\* dict_rows.append({...})
dict_row(map, code) ==
    [WICS_Code |-> code,
     WICS_Name |-> S(map[code]),
     Large_Name |-> level_name(map, code, 2),
     Medium_Name |-> level_name(map, code, 4),
     Small_Name |-> level_name(map, code, 6),
     Micro_Name |-> level_name(map, code, 8)]

\* generate_wics_dictionary: dict_rows, from the matches of the text
generate_wics_dictionary(matches) ==
    LET map == code_to_name(matches)
        sorted_codes == sorted(DOMAIN map)
    IN  [k \in 1..Len(sorted_codes) |-> dict_row(map, sorted_codes[k])]

\* ------------------------------------------------------------------- state
VARIABLES
    masterFile,     \* master_wics.csv: [state, rows]
    dictExists,     \* whether wics_dictionary.csv exists
    op,             \* where the current run of the script is
    df_snapshot,    \* app.py's df_raw: the snapshot this run fetched
    scraped,        \* the lookups of this run's call, in order: <<ticker, sector_name>>
    df_wics,        \* what add_wics_info returned to this run
    df_view,        \* app.py's df: what enrich_data returned to this run
    prevFile,       \* master_wics.csv as it was when this run's call began
    lookedUp,       \* the tickers that earlier runs called scrape_wics_sector for
    response,       \* what requests.get meets in a call of scrape_wics_sector
    sector,         \* what that call returned
    df_enhanced,    \* the table a call of enrich_data is given
    df_formatted,   \* what that call returned
    run,            \* two add_wics_info calls in flight on one master book
    lastSaver,      \* the call that saved the master book last (0: none)
    pairs,          \* the (code, name) matches generate_wics_dictionary finds, in order
    dict_rows       \* the rows it builds from them: [state, rows]

runVars == <<op, df_snapshot, scraped, df_wics, df_view, prevFile, lookedUp>>
scrapeVars == <<response, sector>>
formatVars == <<df_enhanced, df_formatted>>
raceVars == <<run, lastSaver>>
dictVars == <<pairs, dict_rows>>

vars == <<masterFile, dictExists, runVars, scrapeVars, formatVars, raceVars, dictVars>>

NoTable == [cols |-> {}, rows |-> <<>>]

\* ------------------------------------------------------------------ inputs
\* A snapshot row of module_0.fetch_krx_snapshot, reduced to its ticker code and
\* its close price; the first ticker is one whose close price is missing.
SnapshotRow(t) == [Code |-> t, Close |-> IF t = 1 THEN NaN ELSE N(100 * t)]

SeqsUpTo(set, n) == UNION {[1..k -> set] : k \in 1..n}

\* app.py:176 returns before add_wics_info when the snapshot is empty.
Snapshots ==
    {[cols |-> {"Code", "Close"}, rows |-> [i \in DOMAIN l |-> SnapshotRow(l[i])]] :
        l \in SeqsUpTo(Tickers, MaxRows)}

\* What the network may answer to one lookup: a timeout, a page without the
\* marker, and pages whose label is in the index, in the index under a code
\* without a large sector, and not in the index.
PageNoMarker == HttpResponse(200, <<<<"Bio">>>>)
PageOilGas == HttpResponse(200, <<<<"KOSPI">>, <<MARKER, SP, "Oil", NBSP, "Gas", SP>>>>)
PageSemis == HttpResponse(200, <<<<MARKER, "Semis">>>>)
PageBio == HttpResponse(200, <<<<SP, MARKER, SP, "Bio">>>>)
SampleResponses == {ExcResponse, PageNoMarker, PageOilGas, PageSemis, PageBio}

Scraped(list, resp) ==
    [i \in 1..Len(list) |-> <<list[i], scrape_wics_sector(resp[i])>>]

ScrapedTickers(sc) == {sc[i][1] : i \in 1..Len(sc)}

\* ----------------------------------------------------------------- actions
Pending == <<"pending">>
Procs == {1, 2}

RunIdle ==
    /\ op = "idle"
    /\ df_snapshot = NoTable
    /\ scraped = <<>>
    /\ df_wics = NoTable
    /\ df_view = NoTable
    /\ prevFile = AbsentFile
    /\ lookedUp = {}

ScrapeIdle == response = ExcResponse /\ sector = Pending

FormatIdle == df_enhanced = NoTable /\ df_formatted = NoTable

NotDecoded == [state |-> "pending", rows |-> <<>>]

DictIdle == pairs = <<>> /\ dict_rows = NotDecoded

OffRun == [pc |-> "off", ticker |-> 0, missing |-> <<>>, rows |-> <<>>, seen |-> AbsentFile]

RaceIdle == run = [p \in Procs |-> OffRun] /\ lastSaver = 0

Init ==
    /\ masterFile = AbsentFile
    /\ dictExists = TRUE
    /\ RunIdle
    /\ ScrapeIdle
    /\ FormatIdle
    /\ DictIdle
    /\ RaceIdle

\* app.py:175, df_raw = module_0.fetch_krx_snapshot(target_date), not empty
Fetch(snapshot) ==
    /\ op = "idle"
    /\ op' = "fetched"
    /\ df_snapshot' = snapshot
    /\ UNCHANGED <<masterFile, dictExists, scraped, df_wics, df_view, prevFile, lookedUp>>

\* app.py:180-181, df_wics = add_wics_info(df_raw); df = enrich_data(df_raw, df_wics)
Enrich ==
    /\ op = "fetched"
    /\ ~LoadRaises(masterFile)
    /\ LET df_master == load_master(masterFile)
           wics_map == load_wics_map(dictExists)
           missing == missing_set(df_snapshot, df_master)
       IN  \E missing_tickers \in Lists(missing) :
           \E resp \in [1..Len(missing_tickers) -> SampleResponses] :
               LET updated == IF missing_tickers # <<>>
                              THEN update_master_book(missing_tickers, resp, wics_map,
                                                      masterFile)
                              ELSE df_master
                   df_final == join_and_fill(df_snapshot, updated)
               IN  /\ masterFile' = IF missing_tickers # <<>> THEN to_csv(updated)
                                    ELSE masterFile
                   /\ scraped' = Scraped(missing_tickers, resp)
                   /\ df_wics' = df_final
                   /\ df_view' = enrich_data(df_final)
    /\ prevFile' = masterFile
    /\ op' = "refreshed"
    /\ UNCHANGED <<dictExists, df_snapshot, lookedUp>>

\* The run of the script ends: its tables are dropped, the master book stays.
Finish ==
    /\ op \in {"refreshed", "updated", "raised"}
    /\ op' = "idle"
    /\ df_snapshot' = NoTable
    /\ scraped' = <<>>
    /\ df_wics' = NoTable
    /\ df_view' = NoTable
    /\ prevFile' = masterFile
    /\ lookedUp' = lookedUp \cup ScrapedTickers(scraped)
    /\ UNCHANGED <<masterFile, dictExists>>

Next ==
    /\ \/ \E snapshot \in Snapshots : Fetch(snapshot)
       \/ Enrich
       \/ Finish
    /\ UNCHANGED <<scrapeVars, formatVars, dictVars, raceVars>>

Spec == Init /\ [][Next]_vars

\* ------------------------------------------- direct calls of update_master_book
\* The lists a caller may pass: any tickers, repeated or not, or none.
TickerLists == {<<>>} \cup SeqsUpTo(Tickers, MaxList)

StoreResponses == {PageNoMarker, PageOilGas}

InitStore ==
    /\ masterFile = AbsentFile
    /\ dictExists \in BOOLEAN
    /\ RunIdle
    /\ ScrapeIdle
    /\ FormatIdle
    /\ DictIdle
    /\ RaceIdle

\* update_master_book(missing_tickers, wics_map) called on its own: the lookups,
\* then load_data, the merge and the save.
UpdateMasterBook(missing_tickers, resp) ==
    /\ op = "idle"
    /\ ~LoadRaises(masterFile)
    /\ masterFile' = to_csv(update_master_book(missing_tickers, resp,
                                               load_wics_map(dictExists), masterFile))
    /\ scraped' = Scraped(missing_tickers, resp)
    /\ prevFile' = masterFile
    /\ op' = "updated"
    /\ UNCHANGED <<dictExists, df_snapshot, df_wics, df_view, lookedUp>>

\* The same call when master_wics.csv holds no header: the lookups are made,
\* then load_data raises and nothing is saved.
UpdateRaises(missing_tickers, resp) ==
    /\ op = "idle"
    /\ LoadRaises(masterFile)
    /\ scraped' = Scraped(missing_tickers, resp)
    /\ prevFile' = masterFile
    /\ op' = "raised"
    /\ UNCHANGED <<masterFile, dictExists, df_snapshot, df_wics, df_view, lookedUp>>

\* add_wics_info when master_wics.csv holds no header: load_data raises first.
EnrichRaises ==
    /\ op = "fetched"
    /\ LoadRaises(masterFile)
    /\ prevFile' = masterFile
    /\ op' = "raised"
    /\ UNCHANGED <<masterFile, dictExists, df_snapshot, scraped, df_wics, df_view, lookedUp>>

NextStore ==
    /\ \/ \E snapshot \in Snapshots : Fetch(snapshot)
       \/ Enrich
       \/ EnrichRaises
       \/ \E l \in TickerLists : \E resp \in [1..Len(l) -> StoreResponses] :
              UpdateMasterBook(l, resp)
       \/ \E l \in TickerLists : \E resp \in [1..Len(l) -> StoreResponses] :
              UpdateRaises(l, resp)
       \/ Finish
    /\ UNCHANGED <<scrapeVars, formatVars, dictVars, raceVars>>

SpecStore == InitStore /\ [][NextStore]_vars

\* ------------------------------------------------ calls of scrape_wics_sector
Tokens == {MARKER, MARKER_NOSPACE, SP, NBSP, "Oil", "Gas"}
Texts == {<<>>} \cup SeqsUpTo(Tokens, MaxTextLen)
ShortTexts == {<<>>} \cup SeqsUpTo(Tokens, 1)

\* The text nodes of a page, in document order.
Bodies == {<<>>} \cup {<<t>> : t \in Texts} \cup {<<h, t>> : h \in ShortTexts, t \in Texts}

Statuses == {200, 404, 500}

Responses == {ExcResponse} \cup {HttpResponse(st, b) : st \in Statuses, b \in Bodies}

InitScrape ==
    /\ masterFile = AbsentFile
    /\ dictExists = TRUE
    /\ RunIdle
    /\ response \in Responses
    /\ sector = Pending
    /\ FormatIdle
    /\ DictIdle
    /\ RaceIdle

\* sector_name = scrape_wics_sector(ticker)
Scrape ==
    /\ sector = Pending
    /\ sector' = scrape_wics_sector(response)
    /\ UNCHANGED <<masterFile, dictExists, runVars, response, formatVars, dictVars, raceVars>>

NextScrape == Scrape

SpecScrape == InitScrape /\ [][NextScrape]_vars

\* ------------------------------------------------------- calls of enrich_data
\* The cells a column of the input may hold: missing, a text that is no
\* number, and a number that tells the column (k is its place in the field's
\* candidate list).
CellKinds == {"missing", "text", "number"}
Cell(kind, k) ==
    IF kind = "missing" THEN NaN ELSE IF kind = "text" THEN S(<<"abc">>) ELSE N(k)

Place(f, c) == CHOOSE k \in 1..Len(Candidates[f]) : Candidates[f][k] = c
Variants(f) == {Candidates[f][k] : k \in 1..Len(Candidates[f])}

\* The tables of 1..MaxFmtRows rows that hold Code and the columns present of
\* the field f.
FormatInputs(f, present) ==
    UNION {{[cols |-> {"Code"} \cup present,
             rows |-> [i \in 1..n |->
                         [c \in {"Code"} \cup present |->
                             IF c = "Code" THEN i ELSE Cell(kinds[i][c], Place(f, c))]]] :
              kinds \in [1..n -> [present -> CellKinds]]} : n \in 1..MaxFmtRows}

\* The rows over the columns other than Code, the cell of column c drawn from
\* cells[c].
CellRows(cols, cells) ==
    {r \in [cols \ {"Code"} -> UNION {cells[c] : c \in cols \ {"Code"}}] :
        \A c \in cols \ {"Code"} : r[c] \in cells[c]}

\* Tables of 1..MaxFmtRows such rows (a ticker code is the row's number).
TablesOver(cols, cells) ==
    UNION {{[cols |-> cols,
             rows |-> [i \in 1..n |->
                         [c \in cols |-> IF c = "Code" THEN i ELSE pick[i][c]]]] :
              pick \in [1..n -> CellRows(cols, cells)]} :
           n \in 1..MaxFmtRows}

\* Columns enrich_data neither writes nor consolidates: those of desired_cols
\* and Shares, a column of the snapshot (module_0.py:98) outside desired_cols.
PassCols == {"Code", "Name", "Market", "Snapshot_Date", "Shares"}
PassCell == S(<<"x">>)
PassInputs ==
    UNION {TablesOver(cols, [c \in cols |-> {PassCell}]) : cols \in SUBSET PassCols}

\* The taxonomy columns present or not, a cell missing, empty or a name.
SectorCells == {NaN, S(<<>>), S(<<"Energy">>)}
SectorInputs ==
    UNION {TablesOver({"Code"} \cup cols, [c \in {"Code"} \cup cols |-> SectorCells]) :
           cols \in SUBSET SectorCols}

\* The change ratio missing, a text, a text that parses, and numbers on both
\* sides of the clip bounds; with or without Name and Code.
ChangeCells ==
    {NaN, S(<<"abc">>), S(<<"45">>), S(<<"-52">>), N(0), N(7), N(0 - 7),
     N(ClipHigh), N(ClipHigh + 1), N(ClipLow), N(ClipLow - 1)}
ChangeInputs ==
    UNION {TablesOver(cols \cup {"ChagesRatio"},
                      [c \in cols \cup {"ChagesRatio"} |->
                          IF c = "ChagesRatio" THEN ChangeCells ELSE {S(<<"Samsung">>)}]) :
           cols \in SUBSET {"Code", "Name"}}

InitFormat ==
    /\ masterFile = AbsentFile
    /\ dictExists = TRUE
    /\ RunIdle
    /\ ScrapeIdle
    /\ \/ \E f \in CanonicalFields : \E present \in SUBSET Variants(f) :
             df_enhanced \in FormatInputs(f, present)
       \/ df_enhanced \in PassInputs \cup SectorInputs \cup ChangeInputs
    /\ df_formatted = NoTable
    /\ RaceIdle
    /\ DictIdle

\* df_final = enrich_data(df_raw, df_wics)
Format ==
    /\ df_formatted = NoTable
    /\ df_formatted' = enrich_data(df_enhanced)
    /\ UNCHANGED <<masterFile, dictExists, runVars, scrapeVars, df_enhanced, raceVars, dictVars>>

NextFormat == Format

SpecFormat == InitFormat /\ [][NextFormat]_vars

\* ------------------------------------- two add_wics_info calls on one master book
\* Each call is given a snapshot of one row.  to_csv opens the file, which
\* empties it, and writes its content when it closes it.
StartRun(t) == [pc |-> "start", ticker |-> t, missing |-> <<>>, rows |-> <<>>,
                seen |-> AbsentFile]

Truncated == [state |-> "noheader", rows |-> <<>>]

RaceSnapshot(t) == [cols |-> {"Code", "Close"}, rows |-> <<SnapshotRow(t)>>]

RaceResponses == {PageNoMarker, PageOilGas}

InitRace ==
    /\ masterFile = AbsentFile
    /\ dictExists = TRUE
    /\ RunIdle
    /\ ScrapeIdle
    /\ FormatIdle
    /\ DictIdle
    /\ run \in [Procs -> {StartRun(t) : t \in Tickers}]
    /\ lastSaver = 0

\* add_wics_info: df_master, wics_map = load_data() up to the call of
\* update_master_book (none when no ticker is missing).
Load(p) ==
    /\ run[p].pc = "start"
    /\ IF LoadRaises(masterFile)
       THEN run' = [run EXCEPT ![p].pc = "raised"]
       ELSE LET missing == missing_set(RaceSnapshot(run[p].ticker), load_master(masterFile))
            IN  IF missing = {}
                THEN run' = [run EXCEPT ![p].pc = "done"]
                ELSE \E l \in Lists(missing) :
                        run' = [run EXCEPT ![p].pc = "lookup", ![p].missing = l]
    /\ UNCHANGED <<masterFile, dictExists, runVars, scrapeVars, formatVars, dictVars, lastSaver>>

\* update_master_book: the loop over missing_tickers.
Lookup(p, resp) ==
    /\ run[p].pc = "lookup"
    /\ run' = [run EXCEPT ![p].pc = "built",
                          ![p].rows = NewRows(run[p].missing, resp,
                                              load_wics_map(dictExists))]
    /\ UNCHANGED <<masterFile, dictExists, runVars, scrapeVars, formatVars, dictVars, lastSaver>>

\* update_master_book: df_old, _ = load_data()
Reload(p) ==
    /\ run[p].pc = "built"
    /\ IF LoadRaises(masterFile)
       THEN run' = [run EXCEPT ![p].pc = "raised"]
       ELSE run' = [run EXCEPT ![p].pc = "reloaded", ![p].seen = masterFile]
    /\ UNCHANGED <<masterFile, dictExists, runVars, scrapeVars, formatVars, dictVars, lastSaver>>

\* df_combined.to_csv(MASTER_FILE, index=False): the file is opened for writing.
SaveOpen(p) ==
    /\ run[p].pc = "reloaded"
    /\ masterFile' = Truncated
    /\ run' = [run EXCEPT ![p].pc = "opened"]
    /\ UNCHANGED <<dictExists, runVars, scrapeVars, formatVars, dictVars, lastSaver>>

\* df_combined.to_csv(MASTER_FILE, index=False): the content is written from
\* the start of the file.  On a file another call wrote since this one opened
\* it, what that call wrote beyond this content's length may remain after it
\* ("torn"; rows are the whole records written now).
SaveWrite(p) ==
    /\ run[p].pc = "opened"
    /\ LET content == to_csv(Combine(load_master(run[p].seen), DataFrame(run[p].rows)))
       IN  \/ masterFile' = content
           \/ /\ masterFile # Truncated
              /\ masterFile' = [content EXCEPT !.state = "torn"]
    /\ lastSaver' = p
    /\ run' = [run EXCEPT ![p].pc = "done"]
    /\ UNCHANGED <<dictExists, runVars, scrapeVars, formatVars, dictVars>>

NextRace ==
    \/ \E p \in Procs : Load(p)
    \/ \E p \in Procs : \E resp \in [1..Len(run[p].missing) -> RaceResponses] :
          Lookup(p, resp)
    \/ \E p \in Procs : Reload(p)
    \/ \E p \in Procs : SaveOpen(p)
    \/ \E p \in Procs : SaveWrite(p)

SpecRace == InitRace /\ [][NextRace]_vars

\* ------------------------------------------- calls of generate_wics_dictionary
\* Codes of 2 to 8 digits: a chain of prefixes, a code of odd length and a
\* code whose 2-digit prefix is not in the pool.
CodePool ==
    {<<1, 0>>, <<1, 0, 1>>, <<1, 0, 1, 0>>, <<1, 0, 1, 0, 1, 0>>,
     <<1, 0, 1, 0, 1, 0, 1, 0>>, <<2, 0, 1, 0>>}

NamePool == {<<"Energy">>, <<"Oil", SP, "Gas", SP>>}

Matches == {[code |-> c, name |-> nm] : c \in CodePool, nm \in NamePool}

InitDict ==
    /\ masterFile = AbsentFile
    /\ dictExists = TRUE
    /\ RunIdle
    /\ ScrapeIdle
    /\ FormatIdle
    /\ RaceIdle
    /\ pairs \in {<<>>} \cup SeqsUpTo(Matches, MaxPairs)
    /\ dict_rows = NotDecoded

\* generate_wics_dictionary()
Decode ==
    /\ dict_rows = NotDecoded
    /\ dict_rows' = [state |-> "built", rows |-> generate_wics_dictionary(pairs)]
    /\ UNCHANGED <<masterFile, dictExists, runVars, scrapeVars, formatVars, raceVars, pairs>>

NextDict == Decode

SpecDict == InitDict /\ [][NextDict]_vars

\* ------------------------------------------------------------------ claims
CountCode(rows, t) == Cardinality({i \in 1..Len(rows) : rows[i].Code = t})
WicsKeys == DOMAIN load_wics_map(dictExists)
HasLabel(sector_name) == sector_name # None /\ sector_name[2] # <<>>

\* C1: over any sequence of refreshes, add_wics_info calls scrape_wics_sector
\* for a ticker only if the master book held no record of it when the call
\* began: the tickers looked up are snapshot tickers without a record, each
\* looked up once, none of them looked up by an earlier call; a call whose
\* snapshot tickers all had a record looks nothing up, and after every call
\* each snapshot ticker has a record, so that a second call with the same
\* ticker set looks nothing up.
C1_LookupOnlyUnknown ==
    op = "refreshed" =>
        /\ ScrapedTickers(scraped) \subseteq Codes(df_snapshot.rows) \ Codes(prevFile.rows)
        /\ Len(scraped) = Cardinality(ScrapedTickers(scraped))
        /\ ScrapedTickers(scraped) \cap lookedUp = {}
        /\ (Codes(df_snapshot.rows) \subseteq Codes(prevFile.rows) => scraped = <<>>)
        /\ Codes(df_snapshot.rows) \subseteq Codes(masterFile.rows)

\* A call over one ticker an earlier call looked up and one unknown ticker,
\* which looked up the unknown one only.
C1_Witness ==
    /\ op = "refreshed"
    /\ Len(scraped) = 1
    /\ Cardinality(Codes(df_snapshot.rows)) = 2
    /\ Codes(df_snapshot.rows) \cap lookedUp # {}

\* C4 as stated: when a snapshot ticker is absent from the master book and its
\* lookup returns no label, its enriched rows have Large, Medium and Small all
\* equal to "Unclassified", and the master book then holds an "Unclassified"
\* record of it.
C4_AllThreeUnclassified ==
    op = "refreshed" =>
        \A i \in 1..Len(scraped) : scraped[i][2] = None =>
            /\ \A k \in 1..Len(df_view.rows) :
                   df_view.rows[k].Code = scraped[i][1] =>
                       /\ df_view.rows[k].Large = Unclassified
                       /\ df_view.rows[k].Medium = Unclassified
                       /\ df_view.rows[k].Small = Unclassified
            /\ \E j \in 1..Len(masterFile.rows) :
                   /\ masterFile.rows[j].Code = scraped[i][1]
                   /\ masterFile.rows[j].Large = Unclassified

\* C4 amended: in that case the enriched rows have Large and Medium equal to
\* "Unclassified" and Small equal to "Error", and the master book then holds
\* the record (Unclassified, Unclassified, Unclassified, Error) of the ticker.
C4_UnclassifiedWithError ==
    op = "refreshed" =>
        \A i \in 1..Len(scraped) : scraped[i][2] = None =>
            /\ \A k \in 1..Len(df_view.rows) :
                   df_view.rows[k].Code = scraped[i][1] =>
                       /\ df_view.rows[k].Large = Unclassified
                       /\ df_view.rows[k].Medium = Unclassified
                       /\ df_view.rows[k].Small = S(<<"Error">>)
            /\ \E j \in 1..Len(masterFile.rows) :
                   masterFile.rows[j] =
                       [Code |-> scraped[i][1], WICS_Code |-> Unclassified,
                        Large |-> Unclassified, Medium |-> Unclassified,
                        Small |-> S(<<"Error">>)]

\* A refresh whose snapshot held a ticker without a record, the lookup of
\* which returned no label.
C4_Witness ==
    /\ op = "refreshed"
    /\ \E i \in 1..Len(scraped) : scraped[i][2] = None
    /\ df_view.rows # <<>>

\* C5: whatever each lookup of a batch yields (a label of the index, a label
\* that is not in the index, no label), the call completes and the master book
\* gains exactly one record per missing ticker: for a label that is not in the
\* index Small is "Unmapped: <label>", for no label Small is "Error", both
\* with WICS_Code, Large and Medium "Unclassified"; for a label of the index
\* the record carries the index entry of that label.
C5_BatchNeverAborts ==
    /\ op = "fetched" => ~LoadRaises(masterFile)
    /\ op = "refreshed" =>
        /\ Len(masterFile.rows) = Len(prevFile.rows) + Len(scraped)
        /\ \A i \in 1..Len(scraped) :
            LET t == scraped[i][1]
                label == scraped[i][2]
            IN  /\ CountCode(masterFile.rows, t) = 1
                /\ \A j \in 1..Len(masterFile.rows) : masterFile.rows[j].Code = t =>
                    LET r == masterFile.rows[j]
                        miss == /\ r.WICS_Code = Unclassified
                                /\ r.Large = Unclassified
                                /\ r.Medium = Unclassified
                    IN  IF ~HasLabel(label) THEN miss /\ r.Small = S(<<"Error">>)
                        ELSE IF label[2] \notin WicsKeys
                        THEN miss /\ r.Small = S(<<"Unmapped: ">> \o label[2])
                        ELSE /\ Remove(r.Small[2], SP) = label[2]
                             /\ r.WICS_Code # Unclassified

\* A batch of two lookups, one returning no label and one a label that is not
\* in the index, run to completion.
C5_Witness ==
    /\ op = "refreshed"
    /\ Len(scraped) = 2
    /\ \E i, j \in 1..Len(scraped) :
        /\ scraped[i][2] = None
        /\ HasLabel(scraped[j][2]) /\ scraped[j][2][2] \notin WicsKeys

\* C9: add_wics_info and then enrich_data return one row per snapshot row, in
\* the snapshot's order and with its ticker codes, and no taxonomy field of a
\* row is missing: a ticker without a record, and a field its record leaves
\* empty, read "Unclassified".
C9_OneRowPerSnapshotRow ==
    op = "refreshed" =>
        /\ Len(df_wics.rows) = Len(df_snapshot.rows)
        /\ Len(df_view.rows) = Len(df_snapshot.rows)
        /\ \A i \in 1..Len(df_snapshot.rows) :
            /\ df_wics.rows[i].Code = df_snapshot.rows[i].Code
            /\ df_view.rows[i].Code = df_snapshot.rows[i].Code
            /\ \A c \in SectorCols :
                /\ ~IsNaN(df_wics.rows[i][c])
                /\ ~IsNaN(df_view.rows[i][c])
                /\ (df_snapshot.rows[i].Code \notin Codes(masterFile.rows)
                        => df_view.rows[i][c] = Unclassified)
                /\ (\E j \in 1..Len(masterFile.rows) :
                        /\ masterFile.rows[j].Code = df_snapshot.rows[i].Code
                        /\ masterFile.rows[j][c] = S(<<>>))
                        => df_view.rows[i][c] = Unclassified

\* A refresh of a snapshot with two rows of one ticker, whose record leaves the
\* large sector empty, while the master book holds another ticker as well.
C9_Witness ==
    /\ op = "refreshed"
    /\ Len(df_snapshot.rows) = 2
    /\ Cardinality(Codes(df_snapshot.rows)) = 1
    /\ Cardinality(Codes(masterFile.rows)) = 2
    /\ \E j \in 1..Len(masterFile.rows) :
        /\ masterFile.rows[j].Code \in Codes(df_snapshot.rows)
        /\ masterFile.rows[j].Large = S(<<>>)

\* C2: no call of add_wics_info or update_master_book removes a ticker from the
\* master book: the ticker codes it holds after the call include those it held
\* when the call began, also when it was absent or the call raised.
C2_CoverageNeverShrinks ==
    op \in {"refreshed", "updated", "raised"} =>
        Codes(prevFile.rows) \subseteq Codes(masterFile.rows)

\* A call of update_master_book that found a master book with a record and left
\* it with a ticker more.
C2_Witness ==
    /\ op = "updated"
    /\ prevFile.rows # <<>>
    /\ Codes(prevFile.rows) # Codes(masterFile.rows)

\* The record update_master_book built last for ticker t, as to_csv writes it.
LastNewRecord(t) ==
    LET i == CHOOSE i \in 1..Len(scraped) :
                 /\ scraped[i][1] = t
                 /\ \A j \in (i + 1)..Len(scraped) : scraped[j][1] # t
    IN  RowToCsv(NewRow(t, scraped[i][2], load_wics_map(dictExists)))

\* C3: after update_master_book the master book holds exactly one record per
\* ticker code, whatever it held before (nothing included) and whatever the
\* list of new tickers (repeated tickers included), and the record of a ticker
\* of the list is the new one.
C3_OneRecordPerTicker ==
    op = "updated" =>
        /\ \A t \in Codes(masterFile.rows) : CountCode(masterFile.rows, t) = 1
        /\ \A t \in ScrapedTickers(scraped) :
               \E j \in 1..Len(masterFile.rows) : masterFile.rows[j] = LastNewRecord(t)

Is2xx(st) == st \in 200..299

\* The page holds the marker followed by a label: some text node matched by
\* the pattern holds 'WICS :'.
HasMarker(resp) == \E i \in 1..Len(resp.nodes) : \E k \in 1..Len(resp.nodes[i]) :
    resp.nodes[i][k] = MARKER

\* C6: scrape_wics_sector returns None on every failure: a timeout or network
\* error, a response without the marker, and any response that is not 2xx,
\* whatever its body holds; it returns a label only for a 2xx response whose
\* body holds the marker.
C6_NoneOnEveryFailure ==
    sector # Pending =>
        /\ (response.kind = "exception" => sector = None)
        /\ (response.kind = "http" /\ ~HasMarker(response) => sector = None)
        /\ (response.kind = "http" /\ ~Is2xx(response.status) => sector = None)
        /\ (sector # None =>
               response.kind = "http" /\ Is2xx(response.status) /\ HasMarker(response))

\* What steps 6 and 7 make of the value a field adopted: Marcap and ChagesRatio
\* pass through to_numeric(...).fillna(0), the other fields stay as adopted.
Coerced(f, v) == IF f \in {"Marcap", "ChagesRatio"} THEN to_numeric_fill0(v) ELSE v

Formatted == df_formatted # NoTable

\* C8 as stated: every canonical field takes the values of the variant that
\* is earliest in its declared list among the columns present, the canonical
\* name being the last entry of the list; with no variant present it is 0.
C8_EarliestInListWins ==
    Formatted =>
        \A i \in 1..Len(df_enhanced.rows) : \A f \in CanonicalFields :
            LET cands == Candidates[f]
                out == df_formatted.rows[i][f]
            IN  /\ \A k \in 1..Len(cands) :
                      (/\ cands[k] \in df_enhanced.cols
                       /\ \A j \in 1..(k - 1) : cands[j] \notin df_enhanced.cols)
                      => out = Coerced(f, df_enhanced.rows[i][cands[k]])
                /\ (\A k \in 1..Len(cands) : cands[k] \notin df_enhanced.cols)
                      => out = N(0)

\* C8: a canonical field keeps the input's column of its own name when the
\* input has one, whatever variants are present; otherwise it takes the
\* values of the earliest variant present in its declared list; with no
\* variant present it is 0.
C8_CanonicalThenEarliest ==
    Formatted =>
        \A i \in 1..Len(df_enhanced.rows) : \A f \in CanonicalFields :
            LET cands == Candidates[f]
                out == df_formatted.rows[i][f]
            IN  /\ f \in df_enhanced.cols => out = Coerced(f, df_enhanced.rows[i][f])
                /\ f \notin df_enhanced.cols =>
                      \A k \in 1..Len(cands) :
                          (/\ cands[k] \in df_enhanced.cols
                           /\ \A j \in 1..(k - 1) : cands[j] \notin df_enhanced.cols)
                          => out = Coerced(f, df_enhanced.rows[i][cands[k]])
                /\ (\A k \in 1..Len(cands) : cands[k] \notin df_enhanced.cols)
                      => out = N(0)

\* enrich_data was given Marcap and its first variant with different numbers
\* and kept Marcap's.
C8_Witness ==
    /\ Formatted
    /\ {"Marcap", "sigachongaek"} \subseteq df_enhanced.cols
    /\ IsNum(df_enhanced.rows[1]["Marcap"])
    /\ IsNum(df_enhanced.rows[1]["sigachongaek"])
    /\ df_enhanced.rows[1]["Marcap"] # df_enhanced.rows[1]["sigachongaek"]
    /\ df_formatted.rows[1]["Marcap"] = df_enhanced.rows[1]["Marcap"]

NumericFields == CanonicalFields \cup {"Color_Value"}

\* C10: every numeric field of every row enrich_data returns (Close,
\* ChagesRatio, Volume, Amount, Marcap, Color_Value) is a number.
C10_NumericFieldsAreNumbers ==
    Formatted =>
        \A i \in 1..Len(df_formatted.rows) : \A f \in NumericFields :
            IsNum(df_formatted.rows[i][f])

Saved(p) == run[p].pc = "done" /\ run[p].rows # <<>>

\* C7: the last save wins: a master book that a call saved holds the records
\* that call found when it reloaded the file and its own new records, and
\* nothing another call saved in between.
C7_LastSaveWins ==
    (lastSaver # 0 /\ masterFile # Truncated) =>
        Codes(masterFile.rows) =
            Codes(run[lastSaver].seen.rows) \cup
            {run[lastSaver].missing[i] : i \in 1..Len(run[lastSaver].missing)}

\* Both calls loaded and reloaded the master book before either saved, both
\* saved, and the record the first saver learned is not in the master book.
C7_Witness ==
    /\ \A p \in Procs : Saved(p) /\ run[p].seen = AbsentFile
    /\ masterFile.state = "ok"
    /\ \E p \in Procs :
          /\ p # lastSaver
          /\ run[p].ticker \notin Codes(masterFile.rows)

\* C11 as stated: the columns of enrich_data's result are exactly the
\* canonical field set, for every input table.
C11_ExactCanonicalSet ==
    Formatted =>
        /\ df_formatted.cols = desired_cols
        /\ \A i \in 1..Len(df_formatted.rows) : DOMAIN df_formatted.rows[i] = desired_cols

\* C12 as stated: each of Large, Medium, Small is "Unclassified" in the result
\* when the input column is absent or the input value is missing or the empty
\* string, and the input value otherwise.
C12_SectorDefaulting ==
    Formatted =>
        \A i \in 1..Len(df_enhanced.rows) : \A col \in SectorCols :
            df_formatted.rows[i][col] =
                IF col \notin df_enhanced.cols THEN Unclassified
                ELSE IF IsNaN(df_enhanced.rows[i][col]) \/ df_enhanced.rows[i][col] = S(<<>>)
                THEN Unclassified
                ELSE df_enhanced.rows[i][col]

\* The change value a row has when its label is made, and whether and as
\* which number it parses.
ChangeOf(i) == Consolidated(df_enhanced.rows[i], df_enhanced.cols, "ChagesRatio")
Parses(v) == IsNum(v) \/ (IsStr(v) /\ IsNumericText(v[2]))
NumberOf(v) == IF IsNum(v) THEN v[2] ELSE IF Parses(v) THEN ParseTable[v[2][1]] ELSE 0

DisplayName(i) ==
    IF "Name" \in df_enhanced.cols THEN Str(df_enhanced.rows[i]["Name"], "Name")
    ELSE IF "Code" \in df_enhanced.cols THEN Str(df_enhanced.rows[i]["Code"], "Code")
    ELSE <<"Unknown">>

\* C13 as stated: Label is the display name, a newline and the signed percent
\* change with two decimals when the change value parses as a number, and the
\* display name alone when the change value is missing or does not parse.
C13_LabelDegradesToName ==
    Formatted =>
        \A i \in 1..Len(df_enhanced.rows) :
            df_formatted.rows[i]["Label"] =
                IF Parses(ChangeOf(i))
                THEN S(DisplayName(i) \o <<"\n">> \o SignedPercent(NumberOf(ChangeOf(i))))
                ELSE S(DisplayName(i))

\* C14: Color_Value is a number of [-30, 30]: the change ratio coerced to a
\* number (0 when missing or not numeric) when that is within [-30, 30], 30
\* when it is above and -30 when it is below.
C14_ColorValueClamped ==
    Formatted =>
        \A i \in 1..Len(df_enhanced.rows) :
            LET v == NumberOf(ChangeOf(i))
                cv == df_formatted.rows[i]["Color_Value"]
            IN  /\ IsNum(cv)
                /\ cv[2] \in (0 - 30)..30
                /\ (v \in (0 - 30)..30 => cv[2] = v)
                /\ (v > 30 => cv[2] = 30)
                /\ (v < 0 - 30 => cv[2] = 0 - 30)

\* enrich_data was given a change ratio below -30, one that is a text, and
\* returned -30 and 0.
C14_Witness ==
    /\ Formatted
    /\ "ChagesRatio" \in df_enhanced.cols
    /\ \E i \in 1..Len(df_enhanced.rows) :
          \/ /\ df_enhanced.rows[i]["ChagesRatio"] = N(0 - 31)
             /\ df_formatted.rows[i]["Color_Value"] = N(0 - 30)
          \/ /\ df_enhanced.rows[i]["ChagesRatio"] = S(<<"-52">>)
             /\ df_formatted.rows[i]["Color_Value"] = N(0 - 30)

\* C16 as stated: every value of every snapshot column is the same in the
\* table add_wics_info returns as in the snapshot (a missing value stays
\* missing), and the snapshot table itself is not modified.
C16_SnapshotValuesUnchanged ==
    op = "refreshed" =>
        /\ Len(df_wics.rows) = Len(df_snapshot.rows)
        /\ \A i \in 1..Len(df_snapshot.rows) : \A c \in df_snapshot.cols :
              df_wics.rows[i][c] = df_snapshot.rows[i][c]

Decoded == dict_rows.state = "built"

EvenCodes == {pairs[k].code : k \in {j \in 1..Len(pairs) : Len(pairs[j].code) % 2 = 0}}

\* The first name met for a code, in the order of the matches.
FirstName(code) ==
    LET k == CHOOSE k \in 1..Len(pairs) :
                 /\ pairs[k].code = code
                 /\ \A j \in 1..(k - 1) : pairs[j].code # code
    IN  Strip(pairs[k].name)

\* The name registered for the first n digits of an entry's code, or None.
PrefixName(code, n) ==
    IF n <= Len(code) /\ SubSeq(code, 1, n) \in EvenCodes
    THEN S(FirstName(SubSeq(code, 1, n)))
    ELSE None

\* C15: the decoded table has one entry per distinct code of even length,
\* named by the first name met for that code, and its Large, Medium, Small
\* and Micro names are the names registered for the code's first 2, 4, 6 and
\* 8 digits when the code is that long and the prefix is a registered code,
\* None otherwise; a code of odd length is no entry.
C15_NamesResolveByPrefix ==
    Decoded =>
        /\ {dict_rows.rows[k].WICS_Code : k \in 1..Len(dict_rows.rows)} = EvenCodes
        /\ Len(dict_rows.rows) = Cardinality(EvenCodes)
        /\ \A k \in 1..Len(dict_rows.rows) :
              LET code == dict_rows.rows[k].WICS_Code
              IN  /\ dict_rows.rows[k].WICS_Name = S(FirstName(code))
                  /\ dict_rows.rows[k].Large_Name = PrefixName(code, 2)
                  /\ dict_rows.rows[k].Medium_Name = PrefixName(code, 4)
                  /\ dict_rows.rows[k].Small_Name = PrefixName(code, 6)
                  /\ dict_rows.rows[k].Micro_Name = PrefixName(code, 8)

\* A code met twice with two names kept the first, and an entry of six digits
\* has its Large name while its Medium prefix was never registered.
C15_Witness ==
    /\ Decoded
    /\ \E i, j \in 1..Len(pairs) :
          /\ i < j
          /\ pairs[i].code = <<1, 0>> /\ pairs[j].code = <<1, 0>>
          /\ Strip(pairs[i].name) # Strip(pairs[j].name)
          /\ \E k \in 1..Len(dict_rows.rows) :
                /\ Len(dict_rows.rows[k].WICS_Code) = 6
                /\ dict_rows.rows[k].Large_Name = S(Strip(pairs[i].name))
                /\ dict_rows.rows[k].Medium_Name = None
                /\ dict_rows.rows[k].Small_Name # None

====
